---- MODULE Spec2Model ----
(***************************************************************************)
(* Job scheduling / GPU reservation subsystem of aurora_boreale.            *)
(*                                                                         *)
(* The Resource Store (runs, jobs, gpus tables) is shared by the dashboard *)
(* request handlers (src/src/dashboard/routers) and by the agent processes *)
(* (src/src/agent).  Every handler opens its own SQLAlchemy session        *)
(* (autoflush=False): its queries read the committed rows when they run,   *)
(* its attribute assignments stay in the session, and db.commit() flushes  *)
(* them.  A handler is therefore modelled as a read step, which records    *)
(* what the session loaded, followed by one step per db.commit().  At the  *)
(* flush the unit of work emits an UPDATE only for the attributes whose    *)
(* assigned value differs from the value the session loaded.               *)
(***************************************************************************)
EXTENDS Integers, Sequences, FiniteSets, TLC

\* ------------------------------------------------------------------ bounds
\* rows of the runs table; runs created where two request threads or the
\* reservation endpoints take part
MaxRuns == 3
MaxGpuRuns == 2
\* cfg.epochs of every training configuration
TotalEpochs == 2
\* the largest cfg.epochs of the configurations the progress tracker is run on
MaxTotal == 5
\* characters of PATH_INFO; calls of the handler factory per job id; the clock
MaxPath == 4
MaxBuilds == 2
MaxTime == 4
\* TB_IDLE_TIMEOUT and TB_SWEEP_INTERVAL, in ticks of the clock
IdleTimeout == 2
SweepInterval == 1

\* ------------------------------------------------------------- the universe
Agents == {"a1", "a2"}
NoAgent == "none"
Indices == {0, 1}
GpuRows == {<<"a1", 0>>, <<"a2", 0>>}
Priorities == {1, 5}
Procs == {"p1", "p2"}
Reqs == {"q1", "q2"}
RunIds == 1..MaxRuns
NoRun == 0

\* epoch durations handed to the progress callback, and None of the tracker
Durations == {10, 20}
NoEpoch == -1
NoTotal == -1
NoAvg == -1
NoEta == -1

Terminal == {"succeeded", "failed", "canceled"}
NonTerminal == {"queued", "running"}

GpuRunIds == 1..MaxGpuRuns
Range(s) == {s[i] : i \in DOMAIN s}

\* The TensorBoard dispatcher: strings are sequences of characters.
Chars == {"/", "j"}
Paths == UNION {[1..n -> Chars] : n \in 0..MaxPath}
JobIds == {s \in Paths : s # <<>> /\ "/" \notin Range(s)}
Queries == {<<>>, <<"x">>}
Mounts == {<<>>, <<"/", "t">>}
Dirs == {"d1", "d2"}
NoDir == "nodir"
NoApp == 0
NoPing == -1
Webs == {"w1", "w2"}

VARIABLES
    runs,      \* runs table: RunIds -> [state, agent, gpus, fin]
    jobs,      \* jobs table: RunIds -> [exists, priority, enq, deq, err]
    alloc,     \* gpus table: GpuRows -> is_allocated
    api,       \* dashboard request threads: Reqs -> the request in flight, its session, its response
    agentOf,   \* Procs -> the agent id the process was configured with
    proc,      \* agent processes: Procs -> worker loop position and session
    beat,      \* Agents -> last_heartbeat_at of the agent row, last_seen_at of its GPU row
    apps,          \* tensorboard._apps: JobIds -> handler instance, NoApp when absent
    app_logdirs,   \* tensorboard._app_logdirs: JobIds -> directory, NoDir when absent
    app_ingesters, \* tensorboard._app_ingesters: JobIds -> ingester of the instance
    last_ping,     \* tensorboard._last_ping: JobIds -> time, NoPing when absent
    stopped,       \* ingesters whose reload loop was told to stop: <<job id, instance>>
    evicted,       \* handlers the sweeper dropped: <<job id, instance>>
    builds,        \* JobIds -> calls of _build_tb_wsgi_app for the job id so far
    sweeper,       \* the tb-sweeper thread: [pc, now, wake]
    now,           \* time.time()
    heard,         \* JobIds -> time of the last heartbeat request, NoPing when none
    logdirOf,      \* JobIds -> what _resolve_logdir returns, NoDir when there is no run
    onDisk,        \* the directories for which os.path.isdir holds
    web            \* dashboard threads serving /tb and /tensorboard/heartbeat

tbVars == <<apps, app_logdirs, app_ingesters, last_ping, stopped, evicted, builds, sweeper, now,
            heard, logdirOf, onDisk, web>>
storeVars == <<runs, jobs, alloc, api, agentOf, proc, beat>>
vars == <<runs, jobs, alloc, api, agentOf, proc, beat, tbVars>>

\* ------------------------------------------------------------------ rows
AbsentRun == [state |-> "absent", agent |-> NoAgent, gpus |-> {}, fin |-> 0, epoch |-> 0]
AbsentJob == [exists |-> FALSE, priority |-> 0, enq |-> 0, deq |-> 0, err |-> FALSE,
              retries |-> 0]
IdleApi == [pc |-> "idle", op |-> "none", run |-> NoRun, agent |-> NoAgent, gpus |-> {},
            priority |-> 0, seenState |-> "absent", seenTrue |-> {}, newState |-> "absent",
            result |-> "none"]
IdleProc == [pc |-> "idle", run |-> NoRun, halt |-> FALSE, asked |-> FALSE, stop |-> FALSE,
             success |-> FALSE,
             seenState |-> "absent", seenTrue |-> {}, newState |-> "absent",
             loop |-> "top", epoch |-> 0, late |-> 0, hb |-> "sleep",
             cfg_epochs |-> 0, current_epoch |-> NoEpoch, total_epochs |-> NoTotal,
             avg_epoch_time |-> NoAvg, durations |-> <<>>]

IdleWeb == [pc |-> "idle", op |-> "none", job |-> <<>>, rest |-> <<>>, dir |-> NoDir,
            status |-> 0, loc |-> <<>>, served |-> NoApp, idle_timeout |-> 0,
            first |-> FALSE]

\* The handler returns: the request thread holds the response for the client.
Response(o, r, res) == [IdleApi EXCEPT !.pc = "done", !.op = o, !.run = r, !.result = res]

Exists(r) == runs[r].state # "absent"
NumRuns == Cardinality({r \in RunIds : Exists(r)})
NumJobs == Cardinality({r \in RunIds : jobs[r].exists})
CreatesInFlight == Cardinality({q \in Reqs : api[q].pc = "commit" /\ api[q].op = "create"})

\* The GPU rows of a run that a release loop finds allocated when it queries them.
HeldTrue(r) ==
    IF runs[r].agent # NoAgent /\ runs[r].gpus # {}
    THEN {i \in runs[r].gpus : <<runs[r].agent, i>> \in GpuRows /\ alloc[<<runs[r].agent, i>>]}
    ELSE {}

\* The flush of a release loop: is_allocated = False reaches the store for the
\* rows the session loaded as allocated.
Released(a, seen) ==
    [g \in GpuRows |-> IF g[1] = a /\ g[2] \in seen THEN FALSE ELSE alloc[g]]

\* datetime.now(): a stamp that differs from the one stored (0 is NULL).
Stamp(old) == IF old = 1 THEN 2 ELSE 1

\* The flush of run.state = s; run.finished_at = now() on run r.
WriteTerminal(r, seen, s) ==
    [runs EXCEPT ![r].state = IF seen = s THEN @ ELSE s,
                 ![r].fin = Stamp(@)]

Init ==
    /\ runs = [r \in RunIds |-> AbsentRun]
    /\ jobs = [r \in RunIds |-> AbsentJob]
    /\ alloc = [g \in GpuRows |-> FALSE]
    /\ api = [q \in Reqs |-> IdleApi]
    /\ agentOf = [p \in Procs |-> "a1"]
    /\ proc = [p \in Procs |-> IdleProc]
    /\ beat = [a \in Agents |-> [agent |-> 0, gpu |-> 0]]
    /\ apps = [j \in JobIds |-> NoApp]
    /\ app_logdirs = [j \in JobIds |-> NoDir]
    /\ app_ingesters = [j \in JobIds |-> NoApp]
    /\ last_ping = [j \in JobIds |-> NoPing]
    /\ stopped = {}
    /\ evicted = {}
    /\ builds = [j \in JobIds |-> 0]
    /\ sweeper = [pc |-> "off", now |-> 0, wake |-> 0, stale |-> {}]
    /\ now = 0
    /\ heard = [j \in JobIds |-> NoPing]
    /\ logdirOf = [j \in JobIds |-> IF j = <<"j">> THEN "d1" ELSE NoDir]
    /\ onDisk = {}
    /\ web = [w \in Webs |-> IdleWeb]

\* The response has been sent; the request thread is free again.
Return(q) ==
    /\ api[q].pc = "done"
    /\ api' = [api EXCEPT ![q] = IdleApi]
    /\ UNCHANGED <<runs, jobs, alloc, agentOf, beat, tbVars, proc>>

\* ------------------------------------------------- POST /runs/from-config
\* The reservation loop over payload.gpu_indices in one session: the first
\* index without a GPU row ends it with 400, the first index whose row is
\* allocated (in the store, or already marked by this loop) ends it with 409.
RECURSIVE ReserveScan(_, _, _)
ReserveScan(a, idxs, marked) ==
    IF idxs = <<>> THEN [result |-> "ok", marked |-> marked]
    ELSE LET i == Head(idxs) IN
         IF <<a, i>> \notin GpuRows THEN [result |-> "400", marked |-> marked]
         ELSE IF alloc[<<a, i>>] \/ i \in marked THEN [result |-> "409", marked |-> marked]
         ELSE ReserveScan(a, Tail(idxs), marked \cup {i})

CreateCheck(a, idxs) ==
    IF idxs # <<>> /\ a = NoAgent THEN [result |-> "400", marked |-> {}]
    ELSE IF a # NoAgent /\ idxs # <<>> THEN ReserveScan(a, idxs, {})
    ELSE [result |-> "ok", marked |-> {}]

\* CreateRead with a session that flushes each marked GPU row as the loop goes
\* (autoflush and a commit per row): a rejection leaves the earlier marks behind.
CreateReadFlushing(q, a, idxs, prio) ==
    /\ api[q].pc = "idle"
    /\ NumRuns + CreatesInFlight < MaxRuns
    /\ LET c == CreateCheck(a, idxs) IN
       /\ api' = [api EXCEPT ![q] =
                    IF c.result = "ok"
                    THEN [IdleApi EXCEPT !.pc = "commit", !.op = "create", !.agent = a,
                                         !.gpus = c.marked, !.priority = prio]
                    ELSE [Response("create", NoRun, c.result) EXCEPT !.agent = a,
                                                                     !.gpus = Range(idxs)]]
       /\ alloc' = [g \in GpuRows |-> IF g[1] = a /\ g[2] \in c.marked THEN TRUE ELSE alloc[g]]
    /\ UNCHANGED <<runs, jobs, agentOf, beat, tbVars, proc>>

\* A rejected request raises HTTPException: the session is closed without a
\* commit and nothing it marked reaches the store.
CreateRead(q, a, idxs, prio) ==
    /\ api[q].pc = "idle"
    /\ NumRuns + CreatesInFlight < MaxRuns
    /\ LET c == CreateCheck(a, idxs) IN
       api' = [api EXCEPT ![q] =
                 IF c.result = "ok"
                 THEN [IdleApi EXCEPT !.pc = "commit", !.op = "create", !.agent = a,
                                      !.gpus = c.marked, !.priority = prio]
                 ELSE [Response("create", NoRun, c.result) EXCEPT !.agent = a,
                                                                  !.gpus = Range(idxs)]]
    /\ UNCHANGED <<runs, jobs, alloc, agentOf, beat, tbVars, proc>>

\* First db.commit(): the marked GPU rows and the new Run row, state queued.
CreateCommitRun(q) ==
    /\ api[q].pc = "commit" /\ api[q].op = "create"
    /\ LET r == NumRuns + 1
           a == api[q].agent IN
       /\ runs' = [runs EXCEPT ![r] = [state |-> "queued", agent |-> a,
                                       gpus |-> api[q].gpus, fin |-> 0, epoch |-> 0]]
       /\ alloc' = [g \in GpuRows |-> IF g[1] = a /\ g[2] \in api[q].gpus THEN TRUE ELSE alloc[g]]
       /\ api' = [api EXCEPT ![q].pc = "job", ![q].run = r]
    /\ UNCHANGED <<jobs, agentOf, beat, tbVars, proc>>

\* Second db.commit(): the Job row of the run.
CreateCommitJob(q) ==
    /\ api[q].pc = "job"
    /\ LET r == api[q].run IN
       /\ jobs' = [jobs EXCEPT ![r] = [exists |-> TRUE, priority |-> api[q].priority,
                                       enq |-> NumJobs + 1, deq |-> 0, err |-> FALSE,
                                       retries |-> 0]]
       /\ api' = [api EXCEPT ![q] = Response("create", r, "ok")]
    /\ UNCHANGED <<runs, alloc, agentOf, beat, tbVars, proc>>

\* ------------------------------------------------- POST /runs/{id}/cancel
\* CancelRead without the early return for a run that is already terminal.
CancelReadUnguarded(q, r) ==
    /\ api[q].pc = "idle"
    /\ api' = [api EXCEPT ![q] =
                 IF ~Exists(r) THEN Response("cancel", r, "404")
                 ELSE [IdleApi EXCEPT !.pc = "commit", !.op = "cancel", !.run = r,
                                      !.seenState = runs[r].state, !.seenTrue = HeldTrue(r),
                                      !.newState = "canceled"]]
    /\ UNCHANGED <<runs, jobs, alloc, agentOf, beat, tbVars, proc>>

CancelRead(q, r) ==
    /\ api[q].pc = "idle"
    /\ api' = [api EXCEPT ![q] =
                 IF ~Exists(r) THEN Response("cancel", r, "404")
                 ELSE IF runs[r].state \in Terminal THEN Response("cancel", r, runs[r].state)
                 ELSE [IdleApi EXCEPT !.pc = "commit", !.op = "cancel", !.run = r,
                                      !.seenState = runs[r].state, !.seenTrue = HeldTrue(r),
                                      !.newState = "canceled"]]
    /\ UNCHANGED <<runs, jobs, alloc, agentOf, beat, tbVars, proc>>

CancelCommit(q) ==
    /\ api[q].pc = "commit" /\ api[q].op = "cancel"
    /\ LET r == api[q].run IN
       /\ runs' = WriteTerminal(r, api[q].seenState, "canceled")
       /\ alloc' = Released(runs[r].agent, api[q].seenTrue)
       /\ api' = [api EXCEPT ![q] = Response("cancel", r, runs'[r].state)]
    /\ UNCHANGED <<jobs, agentOf, beat, tbVars, proc>>

\* -------------------------------------------------- POST /runs/{id}/start
StartRead(q, r) ==
    /\ api[q].pc = "idle"
    /\ api' = [api EXCEPT ![q] =
                 IF ~Exists(r) THEN Response("start", r, "404")
                 ELSE [IdleApi EXCEPT !.pc = "commit", !.op = "start", !.run = r,
                                      !.seenState = runs[r].state, !.newState = "running"]]
    /\ UNCHANGED <<runs, jobs, alloc, agentOf, beat, tbVars, proc>>

StartCommit(q) ==
    /\ api[q].pc = "commit" /\ api[q].op = "start"
    /\ LET r == api[q].run IN
       /\ runs' = [runs EXCEPT ![r].state = IF api[q].seenState = "running" THEN @ ELSE "running"]
       /\ api' = [api EXCEPT ![q] = Response("start", r, runs'[r].state)]
    /\ UNCHANGED <<jobs, alloc, agentOf, beat, tbVars, proc>>

\* ------------------------------------------------- POST /runs/{id}/finish
FinishRead(q, r, success) ==
    /\ api[q].pc = "idle"
    /\ api' = [api EXCEPT ![q] =
                 IF ~Exists(r) THEN Response("finish", r, "404")
                 ELSE [IdleApi EXCEPT !.pc = "commit", !.op = "finish", !.run = r,
                                      !.seenState = runs[r].state, !.seenTrue = HeldTrue(r),
                                      !.newState = IF success THEN "succeeded" ELSE "failed"]]
    /\ UNCHANGED <<runs, jobs, alloc, agentOf, beat, tbVars, proc>>

FinishCommit(q) ==
    /\ api[q].pc = "commit" /\ api[q].op = "finish"
    /\ LET r == api[q].run IN
       /\ runs' = WriteTerminal(r, api[q].seenState, api[q].newState)
       /\ alloc' = Released(runs[r].agent, api[q].seenTrue)
       /\ api' = [api EXCEPT ![q] = Response("finish", r, runs'[r].state)]
    /\ UNCHANGED <<jobs, agentOf, beat, tbVars, proc>>

\* ------------------------------- POST /agents/{agent_id}/gpus/{index}/reserve
ReserveRead(q, a, i) ==
    /\ api[q].pc = "idle"
    /\ api' = [api EXCEPT ![q] =
                 IF <<a, i>> \notin GpuRows
                 THEN [Response("reserve", NoRun, "404") EXCEPT !.agent = a, !.gpus = {i}]
                 ELSE IF alloc[<<a, i>>]
                 THEN [Response("reserve", NoRun, "already") EXCEPT !.agent = a, !.gpus = {i}]
                 ELSE [IdleApi EXCEPT !.pc = "commit", !.op = "reserve", !.agent = a,
                                      !.gpus = {i}]]
    /\ UNCHANGED <<runs, jobs, alloc, agentOf, beat, tbVars, proc>>

ReserveCommit(q) ==
    /\ api[q].pc = "commit" /\ api[q].op = "reserve"
    /\ alloc' = [g \in GpuRows |-> IF g[1] = api[q].agent /\ g[2] \in api[q].gpus
                                   THEN TRUE ELSE alloc[g]]
    /\ api' = [api EXCEPT ![q] = [Response("reserve", NoRun, "ok") EXCEPT
                                     !.agent = api[q].agent, !.gpus = api[q].gpus]]
    /\ UNCHANGED <<runs, jobs, agentOf, beat, tbVars, proc>>

\* ------------------------------- POST /agents/{agent_id}/gpus/{index}/release
ReleaseRead(q, a, i) ==
    /\ api[q].pc = "idle"
    /\ api' = [api EXCEPT ![q] =
                 IF <<a, i>> \notin GpuRows
                 THEN [Response("release", NoRun, "404") EXCEPT !.agent = a, !.gpus = {i}]
                 ELSE [IdleApi EXCEPT !.pc = "commit", !.op = "release", !.agent = a,
                                      !.gpus = {i},
                                      !.seenTrue = IF alloc[<<a, i>>] THEN {i} ELSE {}]]
    /\ UNCHANGED <<runs, jobs, alloc, agentOf, beat, tbVars, proc>>

ReleaseCommit(q) ==
    /\ api[q].pc = "commit" /\ api[q].op = "release"
    /\ alloc' = Released(api[q].agent, api[q].seenTrue)
    /\ api' = [api EXCEPT ![q] = [Response("release", NoRun, "ok") EXCEPT
                                     !.agent = api[q].agent, !.gpus = api[q].gpus]]
    /\ UNCHANGED <<runs, jobs, agentOf, beat, tbVars, proc>>

\* ------------------------------------------- RunRepository.get_next_queued_run
\* The ordering without its first key: ORDER BY jobs.enqueued_at ASC
BeforeFifo(r1, r2) == jobs[r1].enq < jobs[r2].enq

\* ORDER BY jobs.priority DESC, jobs.enqueued_at ASC
Before(r1, r2) ==
    \/ jobs[r1].priority > jobs[r2].priority
    \/ jobs[r1].priority = jobs[r2].priority /\ jobs[r1].enq < jobs[r2].enq

\* The join of jobs and runs filtered on state = queued and agent_id.
QueuedFor(a) ==
    {r \in RunIds : jobs[r].exists /\ runs[r].state = "queued" /\ runs[r].agent = a}

RECURSIVE OrderBy(_)
OrderBy(S) ==
    IF S = {} THEN <<>>
    ELSE LET f == CHOOSE r \in S : \A o \in S \ {r} : Before(r, o)
         IN <<f>> \o OrderBy(S \ {f})

\* .first() of the ordered query; NoRun when it has no row.
First(a) ==
    IF QueuedFor(a) = {} THEN NoRun ELSE Head(OrderBy(QueuedFor(a)))

\* while not self._stop_event.is_set(): the query of get_next_queued_run;
\* without a row the worker loop sleeps.
ClaimRead(p) ==
    /\ proc[p].pc = "idle" /\ ~proc[p].stop
    /\ LET r == First(agentOf[p]) IN
       IF r = NoRun
       THEN proc' = [proc EXCEPT ![p].pc = "sleep"]
       ELSE proc' = [proc EXCEPT ![p].pc = "claim_commit", ![p].run = r,
                                 ![p].seenState = runs[r].state]
    /\ UNCHANGED <<runs, jobs, alloc, api, agentOf, beat, tbVars>>

\* The worker that never comes back from its sleep after an empty poll.
WakeNever(p) ==
    /\ proc[p].pc = "sleep"
    /\ proc' = [proc EXCEPT ![p].pc = "sleep"]
    /\ UNCHANGED <<runs, jobs, alloc, api, agentOf, beat, tbVars>>

\* await asyncio.sleep(poll_interval) of run_forever
Wake(p) ==
    /\ proc[p].pc = "sleep"
    /\ proc' = [proc EXCEPT ![p].pc = "idle"]
    /\ UNCHANGED <<runs, jobs, alloc, api, agentOf, beat, tbVars>>

\* db.commit() of get_next_queued_run: state running, dequeued_at stamped.
ClaimCommit(p) ==
    /\ proc[p].pc = "claim_commit"
    /\ LET r == proc[p].run IN
       /\ runs' = [runs EXCEPT ![r].state = "running"]
       /\ jobs' = [jobs EXCEPT ![r].deq = Stamp(@)]
    /\ proc' = [proc EXCEPT ![p].pc = "init"]
    /\ UNCHANGED <<alloc, api, agentOf, beat, tbVars>>

\* ------------------------------------------------------------ AgentManager
InitializeRunState(p) ==
    /\ proc[p].pc = "init"
    /\ proc' = [proc EXCEPT ![p].pc = "exec", ![p].halt = FALSE,
                            ![p].loop = "config", ![p].epoch = 0, ![p].late = 0,
                            ![p].current_epoch = 0, ![p].total_epochs = NoTotal,
                            ![p].avg_epoch_time = NoAvg, ![p].durations = <<>>]
    /\ UNCHANGED <<runs, jobs, alloc, api, agentOf, beat, tbVars>>

\* POST /halt: _halt_requested.set().  asked remembers a halt that was made
\* after the claim of the held run was stored and before the training call
\* returned.
RequestHalt(p) ==
    /\ proc[p].run # NoRun
    /\ ~proc[p].halt
    /\ proc' = [proc EXCEPT ![p].halt = TRUE,
                            ![p].asked = @ \/ proc[p].pc \in {"init", "exec", "r_build", "r_exec"}]
    /\ UNCHANGED <<runs, jobs, alloc, api, agentOf, beat, tbVars>>

\* The agent process dies while it holds a claimed run: none of its threads
\* takes a step again.
Crash(p) ==
    /\ proc[p].pc \in {"init", "exec", "exec_commit", "error_commit", "finalize",
                       "finalize_commit"}
    /\ proc' = [proc EXCEPT ![p].pc = "crashed"]
    /\ UNCHANGED <<runs, jobs, alloc, api, agentOf, beat, tbVars>>

\* AgentManager.stop of the shutdown sequence: self._stop_event.set()
Stop(p) ==
    /\ ~proc[p].stop
    /\ proc' = [proc EXCEPT ![p].stop = TRUE]
    /\ UNCHANGED <<runs, jobs, alloc, api, agentOf, beat, tbVars>>

\* ----------------------------------- TrainingExecutor._build_train_config
\* cfg.epochs of the configuration row of the run
BuildTrainConfig(p, epochs) ==
    /\ proc[p].pc = "exec" /\ proc[p].loop = "config"
    /\ proc' = [proc EXCEPT ![p].loop = "top", ![p].cfg_epochs = epochs]
    /\ UNCHANGED <<runs, jobs, alloc, api, agentOf, beat, tbVars>>

\* ------------------------------------------ run_experiment (training loop)
\* loop is the position in "for epoch in range(cfg.epochs)", epoch the loop
\* index, late the number of progress callbacks delivered with the halt flag
\* set.  AgentManager._should_stop
ShouldStop(p) == proc[p].halt \/ proc[p].stop

\* The head of the loop without its stop test.
LoopTopUnchecked(p) ==
    /\ proc[p].pc = "exec" /\ proc[p].loop = "top"
    /\ proc' = [proc EXCEPT ![p].loop =
                   IF proc[p].epoch >= proc[p].cfg_epochs THEN "out" ELSE "epoch"]
    /\ UNCHANGED <<runs, jobs, alloc, api, agentOf, beat, tbVars>>

\* for epoch in range(cfg.epochs): if should_stop(): break
LoopTop(p) ==
    /\ proc[p].pc = "exec" /\ proc[p].loop = "top"
    /\ proc' = [proc EXCEPT ![p].loop =
                   IF proc[p].epoch >= proc[p].cfg_epochs \/ ShouldStop(p) THEN "out" ELSE "epoch"]
    /\ UNCHANGED <<runs, jobs, alloc, api, agentOf, beat, tbVars>>

\* train_one_epoch, evaluate, checkpoint, then progress_cb(epoch, ...)
EpochDone(p) ==
    /\ proc[p].pc = "exec" /\ proc[p].loop = "epoch"
    /\ proc' = [proc EXCEPT ![p].loop = "callback",
                            ![p].late = IF proc[p].halt THEN @ + 1 ELSE @]
    /\ UNCHANGED <<runs, jobs, alloc, api, agentOf, beat, tbVars>>

\* ------------------------------------ AgentManager._on_training_progress
\* Times are kept in units of 1/Scale so that 0.7 * avg + 0.3 * duration is
\* exact for as many callbacks as a run delivers.
RECURSIVE Pow10(_)
Pow10(n) == IF n = 0 THEN 1 ELSE 10 * Pow10(n - 1)

Scale == Pow10(MaxTotal)

\* The tracker that takes every duration as the new average.
MovingAverageLastOnly(avg, duration) == duration * Scale

\* avg = duration if avg is None else 0.7 * avg + 0.3 * duration
MovingAverage(avg, duration) ==
    IF avg = NoAvg THEN duration * Scale
    ELSE (7 * avg + 3 * duration * Scale) \div 10

\* _calculate_eta: None unless avg, epoch and total are set (0 counts as unset
\* for avg and total), else max(0, total - (epoch + 1)) * avg
CalculateEta(avg, epoch, total) ==
    IF avg = NoAvg \/ avg = 0 \/ epoch = NoEpoch \/ total = NoTotal \/ total = 0
    THEN NoEta
    ELSE (IF total - (epoch + 1) > 0 THEN total - (epoch + 1) ELSE 0) * avg

\* RunnerAgent.status: eta_seconds
StatusEta(avg, epoch, total) ==
    LET remaining == IF epoch # NoEpoch /\ total # NoTotal
                     THEN (IF total - (IF epoch + 1 > 0 THEN epoch + 1 ELSE 0) > 0
                           THEN total - (IF epoch + 1 > 0 THEN epoch + 1 ELSE 0) ELSE 0)
                     ELSE 0
    IN IF avg = NoAvg THEN NoEta ELSE remaining * avg

\* with self._lock: epoch, total and the moving average of the epoch time
OnTrainingProgress(p, duration) ==
    /\ proc[p].pc = "exec" /\ proc[p].loop = "callback"
    /\ proc' = [proc EXCEPT ![p].loop = "persist",
                            ![p].current_epoch = proc[p].epoch,
                            ![p].total_epochs = proc[p].cfg_epochs,
                            ![p].avg_epoch_time = MovingAverage(@, duration),
                            ![p].durations = Append(@, duration)]
    /\ UNCHANGED <<runs, jobs, alloc, api, agentOf, beat, tbVars>>

\* RunRepository.update_run_epoch(run_id, progress.epoch + 1)
UpdateRunEpoch(p) ==
    /\ proc[p].pc = "exec" /\ proc[p].loop = "persist"
    /\ runs' = [runs EXCEPT ![proc[p].run].epoch =
                   IF runs[proc[p].run].state = "absent" THEN @ ELSE proc[p].epoch + 1]
    /\ proc' = [proc EXCEPT ![p].loop = "bottom"]
    /\ UNCHANGED <<jobs, alloc, api, agentOf, beat, tbVars>>

\* if should_stop(): break, else the next iteration
LoopBottom(p) ==
    /\ proc[p].pc = "exec" /\ proc[p].loop = "bottom"
    /\ proc' = [proc EXCEPT ![p].loop = IF ShouldStop(p) THEN "out" ELSE "top",
                            ![p].epoch = IF ShouldStop(p) THEN @ ELSE @ + 1]
    /\ UNCHANGED <<runs, jobs, alloc, api, agentOf, beat, tbVars>>

\* --------------------------------------------------------- TrainingExecutor
\* run_experiment returned: _update_run_completion_status loads the run and
\* its GPU rows.
ExecReturned(p) ==
    /\ proc[p].pc = "exec"
    /\ LET r == proc[p].run IN
       proc' = [proc EXCEPT ![p].pc = "exec_commit", ![p].success = TRUE,
                            ![p].seenState = runs[r].state, ![p].seenTrue = HeldTrue(r),
                            ![p].newState = "succeeded"]
    /\ UNCHANGED <<runs, jobs, alloc, api, agentOf, beat, tbVars>>

\* _build_train_config or run_experiment raised: _handle_training_error loads
\* the run, its job and its GPU rows.
ExecRaised(p) ==
    /\ proc[p].pc = "exec"
    /\ LET r == proc[p].run IN
       proc' = [proc EXCEPT ![p].pc = "error_commit", ![p].success = FALSE,
                            ![p].seenState = runs[r].state, ![p].seenTrue = HeldTrue(r),
                            ![p].newState = "failed"]
    /\ UNCHANGED <<runs, jobs, alloc, api, agentOf, beat, tbVars>>

ExecCommit(p) ==
    /\ proc[p].pc = "exec_commit"
    /\ LET r == proc[p].run IN
       /\ runs' = WriteTerminal(r, proc[p].seenState, "succeeded")
       /\ alloc' = Released(runs[r].agent, proc[p].seenTrue)
    /\ proc' = [proc EXCEPT ![p].pc = "finalize", ![p].seenState = "absent", ![p].seenTrue = {},
                            ![p].newState = "absent"]
    /\ UNCHANGED <<jobs, api, agentOf, beat, tbVars>>

ErrorCommit(p) ==
    /\ proc[p].pc = "error_commit"
    /\ LET r == proc[p].run IN
       /\ runs' = WriteTerminal(r, proc[p].seenState, "failed")
       /\ jobs' = [jobs EXCEPT ![r].err = IF jobs[r].exists THEN TRUE ELSE @]
       /\ alloc' = Released(runs[r].agent, proc[p].seenTrue)
    /\ proc' = [proc EXCEPT ![p].pc = "finalize", ![p].seenState = "absent", ![p].seenTrue = {},
                            ![p].newState = "absent"]
    /\ UNCHANGED <<api, agentOf, beat, tbVars>>

\* ------------------------------------- AgentManager._finalize_run_state
FinalState(p) ==
    IF proc[p].halt THEN "canceled"
    ELSE IF proc[p].success THEN "succeeded"
    ELSE "failed"

FinalizeRead(p) ==
    /\ proc[p].pc = "finalize"
    /\ LET r == proc[p].run IN
       proc' = [proc EXCEPT ![p].pc = "finalize_commit",
                            ![p].seenState = runs[r].state, ![p].seenTrue = HeldTrue(r),
                            ![p].newState = FinalState(p)]
    /\ UNCHANGED <<runs, jobs, alloc, api, agentOf, beat, tbVars>>

FinalizeCommit(p) ==
    /\ proc[p].pc = "finalize_commit"
    /\ LET r == proc[p].run IN
       /\ runs' = WriteTerminal(r, proc[p].seenState, proc[p].newState)
       /\ alloc' = Released(runs[r].agent, proc[p].seenTrue)
    /\ proc' = [proc EXCEPT ![p].pc = "clear", ![p].seenState = "absent", ![p].seenTrue = {},
                            ![p].newState = "absent"]
    /\ UNCHANGED <<jobs, api, agentOf, beat, tbVars>>

ClearRunState(p) ==
    /\ proc[p].pc = "clear"
    /\ proc' = [proc EXCEPT ![p].pc = "idle", ![p].run = NoRun, ![p].success = FALSE,
                            ![p].asked = FALSE,
                            ![p].cfg_epochs = 0, ![p].current_epoch = NoEpoch,
                            ![p].total_epochs = NoTotal, ![p].avg_epoch_time = NoAvg,
                            ![p].durations = <<>>]
    /\ UNCHANGED <<runs, jobs, alloc, api, agentOf, beat, tbVars>>

\* ------------------------------------------- RunnerAgent (agent/server.py)
\* db.commit() of _select_next_run, the same query and writes as
\* get_next_queued_run; _train_run follows.
RunnerSelectCommit(p) ==
    /\ proc[p].pc = "claim_commit"
    /\ LET r == proc[p].run IN
       /\ runs' = [runs EXCEPT ![r].state = "running"]
       /\ jobs' = [jobs EXCEPT ![r].deq = Stamp(@)]
    /\ proc' = [proc EXCEPT ![p].pc = "r_build"]
    /\ UNCHANGED <<alloc, api, agentOf, beat, tbVars>>

\* The configuration was built: _halt_requested.clear(), then run_experiment.
RunnerStart(p) ==
    /\ proc[p].pc = "r_build"
    /\ proc' = [proc EXCEPT ![p].pc = "r_exec", ![p].halt = FALSE,
                            ![p].loop = "top", ![p].epoch = 0, ![p].late = 0,
                            ![p].cfg_epochs = TotalEpochs,
                            ![p].current_epoch = 0, ![p].total_epochs = TotalEpochs,
                            ![p].avg_epoch_time = NoAvg, ![p].durations = <<>>]
    /\ UNCHANGED <<runs, jobs, alloc, api, agentOf, beat, tbVars>>

\* run_experiment returned: db2.get loads the run, the halt flag decides.
RunnerReturned(p) ==
    /\ proc[p].pc = "r_exec"
    /\ LET r == proc[p].run IN
       proc' = [proc EXCEPT ![p].pc = "r_final_commit", ![p].success = TRUE,
                            ![p].seenState = runs[r].state, ![p].seenTrue = HeldTrue(r),
                            ![p].newState = IF proc[p].halt THEN "canceled" ELSE "succeeded"]
    /\ UNCHANGED <<runs, jobs, alloc, api, agentOf, beat, tbVars>>

\* The configuration row is missing, or building it or run_experiment raised:
\* the except block loads the run with db3.get.
RunnerRaised(p) ==
    /\ proc[p].pc \in {"r_build", "r_exec"}
    /\ LET r == proc[p].run IN
       proc' = [proc EXCEPT ![p].pc = "r_error_commit", ![p].success = FALSE,
                            ![p].seenState = runs[r].state, ![p].seenTrue = HeldTrue(r),
                            ![p].newState = "failed"]
    /\ UNCHANGED <<runs, jobs, alloc, api, agentOf, beat, tbVars>>

RunnerFinalCommit(p) ==
    /\ proc[p].pc = "r_final_commit"
    /\ LET r == proc[p].run IN
       /\ runs' = WriteTerminal(r, proc[p].seenState, proc[p].newState)
       /\ alloc' = Released(runs[r].agent, proc[p].seenTrue)
    /\ proc' = [proc EXCEPT ![p].pc = "clear", ![p].seenState = "absent", ![p].seenTrue = {},
                            ![p].newState = "absent"]
    /\ UNCHANGED <<jobs, api, agentOf, beat, tbVars>>

RunnerErrorCommit(p) ==
    /\ proc[p].pc = "r_error_commit"
    /\ LET r == proc[p].run IN
       /\ runs' = WriteTerminal(r, proc[p].seenState, "failed")
       /\ jobs' = [jobs EXCEPT ![r].err = IF jobs[r].exists THEN TRUE ELSE @]
       /\ alloc' = Released(runs[r].agent, proc[p].seenTrue)
    /\ proc' = [proc EXCEPT ![p].pc = "clear", ![p].seenState = "absent", ![p].seenTrue = {},
                            ![p].newState = "absent"]
    /\ UNCHANGED <<api, agentOf, beat, tbVars>>

\* ------------------------------------------ AgentAppFactory._heartbeat_loop
\* A task of the event loop of its own; the worker runs in an executor thread.
\* await asyncio.sleep(15); agent_repository.update_heartbeat(agent_id)
HeartbeatAgent(p) ==
    /\ proc[p].hb = "sleep"
    /\ beat' = [beat EXCEPT ![agentOf[p]].agent = Stamp(@)]
    /\ proc' = [proc EXCEPT ![p].hb = "gpu"]
    /\ UNCHANGED <<runs, jobs, alloc, api, agentOf, tbVars>>

\* agent_repository.update_gpu_heartbeat(agent_id, gpu_index)
HeartbeatGpu(p) ==
    /\ proc[p].hb = "gpu"
    /\ beat' = [beat EXCEPT ![agentOf[p]].gpu = Stamp(@)]
    /\ proc' = [proc EXCEPT ![p].hb = "sleep"]
    /\ UNCHANGED <<runs, jobs, alloc, api, agentOf, tbVars>>

\* ------------------------------------------- tensorboard.make_dispatcher.app
\* [p for p in path.split("/") if p], from position i with segment cur open
RECURSIVE SplitFrom(_, _, _)
SplitFrom(s, i, cur) ==
    LET closed == IF cur = <<>> THEN <<>> ELSE <<cur>> IN
    IF i > Len(s) THEN closed
    ELSE IF s[i] = "/" THEN closed \o SplitFrom(s, i + 1, <<>>)
    ELSE SplitFrom(s, i + 1, Append(cur, s[i]))

Parts(path) == SplitFrom(path, 1, <<>>)

\* "/" + "/".join(parts)
RECURSIVE Joined(_)
Joined(parts) ==
    IF parts = <<>> THEN <<"/">>
    ELSE IF Len(parts) = 1 THEN <<"/">> \o parts[1]
    ELSE <<"/">> \o parts[1] \o Joined(Tail(parts))

EndsWithSlash(path) == Len(path) > 0 /\ path[Len(path)] = "/"

\* loc = f"{base_mount}/{run_id}/", then f"{loc}?{qs}" when qs is not empty
RedirectTo(mount, run_id, qs) ==
    mount \o <<"/">> \o run_id \o <<"/">> \o (IF qs = <<>> THEN <<>> ELSE <<"?">> \o qs)

\* The redirect without the query string.
WebRouteDroppingQuery(w, mount, pathInfo, qs) ==
    /\ web[w].pc = "idle"
    /\ LET path == IF pathInfo = <<>> THEN <<"/">> ELSE pathInfo
           parts == Parts(path)
       IN web' = [web EXCEPT ![w] =
                    IF parts = <<>>
                    THEN [IdleWeb EXCEPT !.pc = "done", !.op = "index", !.status = 200]
                    ELSE IF Len(parts) = 1 /\ ~EndsWithSlash(path)
                    THEN [IdleWeb EXCEPT !.pc = "done", !.op = "redirect", !.job = parts[1],
                                         !.status = 308,
                                         !.loc = RedirectTo(mount, parts[1], <<>>)]
                    ELSE [IdleWeb EXCEPT !.pc = "resolve", !.op = "forward", !.job = parts[1],
                                         !.rest = Joined(Tail(parts))]]
    /\ UNCHANGED <<storeVars, apps, app_logdirs, app_ingesters, last_ping, stopped, evicted, builds,
                   sweeper, now, heard, logdirOf, onDisk>>

\* The index page, the 308 redirect of /<run_id>, or a request to forward.
WebRoute(w, mount, pathInfo, qs) ==
    /\ web[w].pc = "idle"
    /\ LET path == IF pathInfo = <<>> THEN <<"/">> ELSE pathInfo
           parts == Parts(path)
       IN web' = [web EXCEPT ![w] =
                    IF parts = <<>>
                    THEN [IdleWeb EXCEPT !.pc = "done", !.op = "index", !.status = 200]
                    ELSE IF Len(parts) = 1 /\ ~EndsWithSlash(path)
                    THEN [IdleWeb EXCEPT !.pc = "done", !.op = "redirect", !.job = parts[1],
                                         !.status = 308,
                                         !.loc = RedirectTo(mount, parts[1], qs)]
                    ELSE [IdleWeb EXCEPT !.pc = "resolve", !.op = "forward", !.job = parts[1],
                                         !.rest = Joined(Tail(parts))]]
    /\ UNCHANGED <<storeVars, apps, app_logdirs, app_ingesters, last_ping, stopped, evicted, builds,
                   sweeper, now, heard, logdirOf, onDisk>>

\* The lookup that answers every resolvable job id, directory or not.
WebResolveUnchecked(w) ==
    /\ web[w].pc = "resolve"
    /\ LET d == logdirOf[web[w].job] IN
       web' = [web EXCEPT ![w] =
                 IF d = NoDir
                 THEN [IdleWeb EXCEPT !.pc = "done", !.op = "forward", !.job = web[w].job,
                                      !.status = 404]
                 ELSE [web[w] EXCEPT !.pc = "sweeper", !.dir = d,
                                     !.first = (apps[web[w].job] = NoApp)]]
    /\ UNCHANGED <<storeVars, apps, app_logdirs, app_ingesters, last_ping, stopped, evicted, builds,
                   sweeper, now, heard, logdirOf, onDisk>>

\* _resolve_logdir(run_id) and os.path.isdir(logdir): 404 when either fails.
\* first: no handler is cached for the job id as the request arrives.
WebResolve(w) ==
    /\ web[w].pc = "resolve"
    /\ LET d == logdirOf[web[w].job] IN
       web' = [web EXCEPT ![w] =
                 IF d = NoDir \/ d \notin onDisk
                 THEN [IdleWeb EXCEPT !.pc = "done", !.op = "forward", !.job = web[w].job,
                                      !.status = 404]
                 ELSE [web[w] EXCEPT !.pc = "sweeper", !.dir = d,
                                     !.first = (apps[web[w].job] = NoApp)]]
    /\ UNCHANGED <<storeVars, apps, app_logdirs, app_ingesters, last_ping, stopped, evicted, builds,
                   sweeper, now, heard, logdirOf, onDisk>>

\* The response has been sent.
WebReturn(w) ==
    /\ web[w].pc = "done"
    /\ web' = [web EXCEPT ![w] = IdleWeb]
    /\ UNCHANGED <<storeVars, apps, app_logdirs, app_ingesters, last_ping, stopped, evicted, builds,
                   sweeper, now, heard, logdirOf, onDisk>>

\* ----------------------------------------- tensorboard.get_or_create_tb_app
\* _start_sweeper_if_needed: the first caller starts the tb-sweeper thread.
Started == IF sweeper.pc = "off" THEN [sweeper EXCEPT !.pc = "due"] ELSE sweeper

WebStartSweeper(w) ==
    /\ web[w].pc = "sweeper"
    /\ sweeper' = Started
    /\ web' = [web EXCEPT ![w].pc = "cache"]
    /\ UNCHANGED <<storeVars, apps, app_logdirs, app_ingesters, last_ping, stopped, evicted, builds,
                   now, heard, logdirOf, onDisk>>

\* The lookup that takes any cached handler of the job id.
CachedAnyDir(j, d) == apps[j] # NoApp

\* existing and _app_logdirs.get(run_id) == logdir
Cached(j, d) == apps[j] # NoApp /\ app_logdirs[j] = d

\* The lookup and the build as two critical sections: the mutex is dropped
\* while _build_tb_wsgi_app runs.
WebGetOrCreateUnlocked(w) ==
    /\ LET j == web[w].job
           d == web[w].dir
       IN \/ /\ web[w].pc = "cache"
             /\ Cached(j, d)
             /\ web' = [web EXCEPT ![w].pc = "serve", ![w].served = apps[j]]
             /\ UNCHANGED <<apps, app_logdirs, app_ingesters, builds>>
          \/ /\ web[w].pc = "cache"
             /\ ~Cached(j, d)
             /\ web' = [web EXCEPT ![w].pc = "building"]
             /\ UNCHANGED <<apps, app_logdirs, app_ingesters, builds>>
          \/ /\ web[w].pc = "building"
             /\ builds[j] < MaxBuilds
             /\ builds' = [builds EXCEPT ![j] = @ + 1]
             /\ apps' = [apps EXCEPT ![j] = builds[j] + 1]
             /\ app_logdirs' = [app_logdirs EXCEPT ![j] = d]
             /\ \E ing \in {builds[j] + 1, NoApp} :
                   app_ingesters' = [app_ingesters EXCEPT ![j] =
                                        IF ing = NoApp THEN @ ELSE ing]
             /\ web' = [web EXCEPT ![w].pc = "serve", ![w].served = builds[j] + 1]
    /\ UNCHANGED <<storeVars, last_ping, stopped, evicted, sweeper, now, heard, logdirOf, onDisk>>

\* with _lock: the cached handler when the directory matches, else
\* _build_tb_wsgi_app and the three cache entries; the ingester is stored when
\* the handler carries one (getattr(app, "_tb_ingester", None)).
WebGetOrCreate(w) ==
    /\ web[w].pc = "cache"
    /\ LET j == web[w].job
           d == web[w].dir
       IN \/ /\ Cached(j, d)
             /\ web' = [web EXCEPT ![w].pc = "serve", ![w].served = apps[j]]
             /\ UNCHANGED <<apps, app_logdirs, app_ingesters, builds>>
          \/ /\ ~Cached(j, d)
             /\ builds[j] < MaxBuilds
             /\ builds' = [builds EXCEPT ![j] = @ + 1]
             /\ apps' = [apps EXCEPT ![j] = builds[j] + 1]
             /\ app_logdirs' = [app_logdirs EXCEPT ![j] = d]
             /\ \E ing \in {builds[j] + 1, NoApp} :
                   app_ingesters' = [app_ingesters EXCEPT ![j] =
                                        IF ing = NoApp THEN @ ELSE ing]
             /\ web' = [web EXCEPT ![w].pc = "serve", ![w].served = builds[j] + 1]
    /\ UNCHANGED <<storeVars, last_ping, stopped, evicted, sweeper, now, heard, logdirOf, onDisk>>

\* The build that stores the directory before the factory raises.
WebBuildRaisesStoring(w) ==
    /\ web[w].pc = "cache"
    /\ LET j == web[w].job IN
       /\ ~Cached(j, web[w].dir)
       /\ builds[j] < MaxBuilds
       /\ builds' = [builds EXCEPT ![j] = @ + 1]
       /\ app_logdirs' = [app_logdirs EXCEPT ![j] = web[w].dir]
       /\ web' = [web EXCEPT ![w] = [IdleWeb EXCEPT !.pc = "done", !.op = "forward",
                                                    !.job = j, !.status = 500]]
    /\ UNCHANGED <<storeVars, apps, app_ingesters, last_ping, stopped, evicted, sweeper,
                   now, heard, logdirOf, onDisk>>

\* _build_tb_wsgi_app raises inside the with block: the mutex is released,
\* nothing is stored, the exception leaves the dispatcher.
WebBuildRaises(w) ==
    /\ web[w].pc = "cache"
    /\ LET j == web[w].job IN
       /\ ~Cached(j, web[w].dir)
       /\ builds[j] < MaxBuilds
       /\ builds' = [builds EXCEPT ![j] = @ + 1]
       /\ web' = [web EXCEPT ![w] = [IdleWeb EXCEPT !.pc = "done", !.op = "forward",
                                                    !.job = j, !.status = 500]]
    /\ UNCHANGED <<storeVars, apps, app_logdirs, app_ingesters, last_ping, stopped, evicted, sweeper,
                   now, heard, logdirOf, onDisk>>

\* Serving that counts the request as activity of the job id.
WebServeTouching(w) ==
    /\ web[w].pc = "serve"
    /\ web' = [web EXCEPT ![w].pc = "done", ![w].status = 200]
    /\ last_ping' = [last_ping EXCEPT ![web[w].job] = now]
    /\ UNCHANGED <<storeVars, apps, app_logdirs, app_ingesters, stopped, evicted, builds,
                   sweeper, now, heard, logdirOf, onDisk>>

\* return tb_app(inner_environ, _sr)
WebServe(w) ==
    /\ web[w].pc = "serve"
    /\ web' = [web EXCEPT ![w].pc = "done", ![w].status = 200]
    /\ UNCHANGED <<storeVars, apps, app_logdirs, app_ingesters, last_ping, stopped, evicted, builds,
                   sweeper, now, heard, logdirOf, onDisk>>

\* --------------------------- POST /tensorboard/heartbeat, record_heartbeat
HeartbeatRequest(w, j) ==
    /\ web[w].pc = "idle"
    /\ IF j = <<>>
       THEN /\ web' = [web EXCEPT ![w] = [IdleWeb EXCEPT !.pc = "done", !.op = "heartbeat",
                                                         !.status = 400]]
            /\ UNCHANGED sweeper
       ELSE /\ web' = [web EXCEPT ![w] = [IdleWeb EXCEPT !.pc = "ping", !.op = "heartbeat",
                                                         !.job = j]]
            /\ sweeper' = Started
    /\ UNCHANGED <<storeVars, apps, app_logdirs, app_ingesters, last_ping, stopped, evicted, builds,
                   now, heard, logdirOf, onDisk>>

\* The heartbeat that warms the handler of the job id up.
RecordHeartbeatBuilding(w) ==
    /\ web[w].pc = "ping"
    /\ LET j == web[w].job IN
       /\ last_ping' = [last_ping EXCEPT ![j] = now]
       /\ heard' = [heard EXCEPT ![j] = now]
       /\ apps' = [apps EXCEPT ![j] = IF @ = NoApp /\ builds[j] < MaxBuilds
                                       THEN builds[j] + 1 ELSE @]
       /\ builds' = [builds EXCEPT ![j] = IF apps[j] = NoApp /\ @ < MaxBuilds
                                           THEN @ + 1 ELSE @]
    /\ web' = [web EXCEPT ![w].pc = "done", ![w].status = 200,
                          ![w].idle_timeout = IdleTimeout]
    /\ UNCHANGED <<storeVars, app_logdirs, app_ingesters, stopped, evicted, sweeper,
                   now, logdirOf, onDisk>>

\* with _lock: _last_ping[run_id] = time.time()
RecordHeartbeat(w) ==
    /\ web[w].pc = "ping"
    /\ last_ping' = [last_ping EXCEPT ![web[w].job] = now]
    /\ heard' = [heard EXCEPT ![web[w].job] = now]
    /\ web' = [web EXCEPT ![w].pc = "done", ![w].status = 200,
                          ![w].idle_timeout = IdleTimeout]
    /\ UNCHANGED <<storeVars, apps, app_logdirs, app_ingesters, stopped, evicted, builds, sweeper,
                   now, logdirOf, onDisk>>

\* ------------------------------------------------------ tensorboard._sweeper
\* now = time.time()
SweepBegin ==
    /\ sweeper.pc = "due"
    /\ sweeper' = [sweeper EXCEPT !.pc = "evict", !.now = now,
                                  !.stale = {j \in JobIds : last_ping[j] # NoPing
                                                /\ now - last_ping[j] > IdleTimeout}]
    /\ UNCHANGED <<storeVars, apps, app_logdirs, app_ingesters, last_ping, stopped, evicted, builds,
                   now, heard, logdirOf, onDisk, web>>

\* The sweep that takes a heartbeat of exactly idle_timeout for stale.
ToEvictInclusive ==
    {j \in JobIds : last_ping[j] # NoPing /\ sweeper.now - last_ping[j] >= IdleTimeout}

\* to_evict: now - ts > IDLE_TIMEOUT
ToEvict == {j \in JobIds : last_ping[j] # NoPing /\ sweeper.now - last_ping[j] > IdleTimeout}

\* The sweep that forgets the cached directory of the handlers it drops.
SweepEvictKeepingDir ==
    /\ sweeper.pc = "evict"
    /\ stopped' = stopped \cup {<<j, app_ingesters[j]>> : j \in
                     {e \in ToEvict : apps[e] # NoApp /\ app_ingesters[e] # NoApp}}
    /\ apps' = [j \in JobIds |-> IF j \in ToEvict THEN NoApp ELSE apps[j]]
    /\ app_ingesters' = [j \in JobIds |-> IF j \in ToEvict /\ apps[j] # NoApp
                                          THEN NoApp ELSE app_ingesters[j]]
    /\ last_ping' = [j \in JobIds |-> IF j \in ToEvict THEN NoPing ELSE last_ping[j]]
    /\ evicted' = evicted \cup {<<j, apps[j]>> : j \in {e \in ToEvict : apps[e] # NoApp}}
    /\ sweeper' = [sweeper EXCEPT !.pc = "sleep", !.wake = now + SweepInterval,
                                  !.stale = {}]
    /\ UNCHANGED <<storeVars, app_logdirs, builds, now, heard, logdirOf, onDisk, web>>

\* with _lock: the idle job ids lose their handler, directory, ingester and
\* heartbeat; then time.sleep(SWEEP_INTERVAL)
SweepEvict ==
    /\ sweeper.pc = "evict"
    /\ stopped' = stopped \cup {<<j, app_ingesters[j]>> : j \in
                     {e \in ToEvict : apps[e] # NoApp /\ app_ingesters[e] # NoApp}}
    /\ apps' = [j \in JobIds |-> IF j \in ToEvict THEN NoApp ELSE apps[j]]
    /\ app_logdirs' = [j \in JobIds |-> IF j \in ToEvict /\ apps[j] # NoApp
                                        THEN NoDir ELSE app_logdirs[j]]
    /\ app_ingesters' = [j \in JobIds |-> IF j \in ToEvict /\ apps[j] # NoApp
                                          THEN NoApp ELSE app_ingesters[j]]
    /\ last_ping' = [j \in JobIds |-> IF j \in ToEvict THEN NoPing ELSE last_ping[j]]
    /\ evicted' = evicted \cup {<<j, apps[j]>> : j \in {e \in ToEvict : apps[e] # NoApp}}
    /\ sweeper' = [sweeper EXCEPT !.pc = "sleep", !.wake = now + SweepInterval,
                                  !.stale = {}]
    /\ UNCHANGED <<storeVars, builds, now, heard, logdirOf, onDisk, web>>

SweepWake ==
    /\ sweeper.pc = "sleep" /\ now >= sweeper.wake
    /\ sweeper' = [sweeper EXCEPT !.pc = "due"]
    /\ UNCHANGED <<storeVars, apps, app_logdirs, app_ingesters, last_ping, stopped, evicted, builds,
                   now, heard, logdirOf, onDisk, web>>

\* A stored time once the origin of the clock has moved on by one tick; a
\* time that is MaxTime old stays MaxTime old.
Shifted(t) == IF t = NoPing THEN NoPing ELSE IF t > 0 THEN t - 1 ELSE 0

\* Time passes; the sweeper thread is not late for its next sweep.  The clock
\* counts up to MaxTime; from then on the origin moves with it.
Tick ==
    /\ sweeper.pc \notin {"due", "evict"}
    /\ sweeper.pc = "sleep" => now < sweeper.wake
    /\ IF now < MaxTime
       THEN /\ now' = now + 1
            /\ UNCHANGED <<last_ping, heard, sweeper>>
       ELSE /\ now' = now
            /\ last_ping' = [j \in JobIds |-> Shifted(last_ping[j])]
            /\ heard' = [j \in JobIds |-> Shifted(heard[j])]
            /\ sweeper' = [sweeper EXCEPT !.now = Shifted(@), !.wake = Shifted(@)]
    /\ UNCHANGED <<storeVars, apps, app_logdirs, app_ingesters, stopped, evicted, builds,
                   logdirOf, onDisk, web>>

\* The training run writes its TensorBoard directory.
MakeDir(d) ==
    /\ d \notin onDisk
    /\ onDisk' = onDisk \cup {d}
    /\ UNCHANGED <<storeVars, apps, app_logdirs, app_ingesters, last_ping, stopped, evicted, builds,
                   sweeper, now, heard, logdirOf, web>>

\* The run row's log_dir or name changes: _resolve_logdir returns directory d
\* for job id j from now on.
Relocate(j, d) ==
    /\ logdirOf[j] \notin {NoDir, d}
    /\ logdirOf' = [logdirOf EXCEPT ![j] = d]
    /\ UNCHANGED <<storeVars, apps, app_logdirs, app_ingesters, last_ping, stopped, evicted, builds,
                   sweeper, now, heard, onDisk, web>>

\* ----------------------------------------------------------- specifications
\* Spec: reservation and finality.  One dashboard request at a time and the
\* agent process p1 of agent a1, which owns GPU 0.
Create1(q) ==
    /\ NumRuns + CreatesInFlight < MaxGpuRuns
    /\ \E idxs \in {<<0>>, <<0, 1>>, <<0, 0>>} : CreateRead(q, "a1", idxs, 1)

ApiNext(q) ==
    \/ Return(q)
    \/ Create1(q)
    \/ CreateCommitRun(q)
    \/ CreateCommitJob(q)
    \/ \E r \in GpuRunIds : CancelRead(q, r)
    \/ CancelCommit(q)
    \/ \E r \in GpuRunIds : StartRead(q, r)
    \/ StartCommit(q)
    \/ \E r \in GpuRunIds, success \in BOOLEAN : FinishRead(q, r, success)
    \/ FinishCommit(q)
    \/ \E i \in Indices : ReserveRead(q, "a1", i)
    \/ ReserveCommit(q)
    \/ \E i \in Indices : ReleaseRead(q, "a1", i)
    \/ ReleaseCommit(q)

AgentNext(p) ==
    \/ ClaimRead(p)
    \/ Wake(p)
    \/ ClaimCommit(p)
    \/ InitializeRunState(p)
    \/ RequestHalt(p)
    \/ ExecReturned(p)
    \/ ExecRaised(p)
    \/ ExecCommit(p)
    \/ ErrorCommit(p)
    \/ FinalizeRead(p)
    \/ FinalizeCommit(p)
    \/ ClearRunState(p)

Next == ApiNext("q1") \/ AgentNext("p1")

Spec == Init /\ [][Next]_vars

\* SpecRace: two concurrent dashboard requests (creation with reservation,
\* cancel, finish) beside the agent process p1.
RaceApiNext(q) ==
    \/ Return(q)
    \/ NumRuns + CreatesInFlight < MaxGpuRuns /\ CreateRead(q, "a1", <<0>>, 1)
    \/ CreateCommitRun(q)
    \/ CreateCommitJob(q)
    \/ \E r \in GpuRunIds : CancelRead(q, r)
    \/ CancelCommit(q)
    \/ \E r \in GpuRunIds : FinishRead(q, r, TRUE)
    \/ FinishCommit(q)

\* The worker loop of a process whose training calls return and that is not
\* asked to halt.
WorkerNext(p) ==
    \/ ClaimRead(p)
    \/ Wake(p)
    \/ ClaimCommit(p)
    \/ InitializeRunState(p)
    \/ ExecReturned(p)
    \/ ExecCommit(p)
    \/ FinalizeRead(p)
    \/ FinalizeCommit(p)
    \/ ClearRunState(p)

RaceNext == (\E q \in Reqs : RaceApiNext(q)) \/ WorkerNext("p1")

SpecRace == Init /\ [][RaceNext]_vars

\* SpecQueue: the queue.  Runs without GPUs of both agents and two priorities,
\* created by one request thread, and two agent processes that were both
\* started with agent id a1.
QueueApiNext(q) ==
    \/ Return(q)
    \/ \E a \in Agents, prio \in Priorities : CreateRead(q, a, <<>>, prio)
    \/ CreateCommitRun(q)
    \/ CreateCommitJob(q)

QueueNext == QueueApiNext("q1") \/ (\E p \in Procs : WorkerNext(p))

SpecQueue == Init /\ [][QueueNext]_vars

\* SpecRunner: the RunnerAgent of agent/server.py.  One request thread that
\* creates runs on GPU 0 of agent a1 and cancels them, and the process p1.
RunnerApiNext(q) ==
    \/ Return(q)
    \/ /\ NumRuns + CreatesInFlight < MaxGpuRuns
       /\ CreateRead(q, "a1", <<0>>, 1)
    \/ CreateCommitRun(q)
    \/ CreateCommitJob(q)
    \/ \E r \in GpuRunIds : CancelRead(q, r)
    \/ CancelCommit(q)

RunnerNext(p) ==
    \/ ClaimRead(p)
    \/ Wake(p)
    \/ RunnerSelectCommit(p)
    \/ RunnerStart(p)
    \/ RequestHalt(p)
    \/ RunnerReturned(p)
    \/ RunnerRaised(p)
    \/ RunnerFinalCommit(p)
    \/ RunnerErrorCommit(p)
    \/ ClearRunState(p)

RunnerSpecNext == RunnerApiNext("q1") \/ RunnerNext("p1")

SpecRunner == Init /\ [][RunnerSpecNext]_vars

\* SpecTrain: the training loop under AgentManager.  One request thread that
\* creates runs on GPU 0 of agent a1 and cancels them, the process p1, and halt
\* requests; the training call leaves the loop or raises inside an epoch.
TrainNext(p) ==
    \/ ClaimRead(p)
    \/ Wake(p)
    \/ ClaimCommit(p)
    \/ InitializeRunState(p)
    \/ BuildTrainConfig(p, TotalEpochs)
    \/ LoopTop(p)
    \/ EpochDone(p)
    \/ OnTrainingProgress(p, 10)
    \/ UpdateRunEpoch(p)
    \/ LoopBottom(p)
    \/ proc[p].loop = "out" /\ ExecReturned(p)
    \/ proc[p].loop = "epoch" /\ ExecRaised(p)
    \/ ExecCommit(p)
    \/ ErrorCommit(p)
    \/ FinalizeRead(p)
    \/ FinalizeCommit(p)
    \/ ClearRunState(p)

TrainSpecNext == RunnerApiNext("q1") \/ TrainNext("p1") \/ RequestHalt("p1")

\* The worker thread of the agent keeps running.
SpecTrain == Init /\ [][TrainSpecNext]_vars /\ WF_vars(TrainNext("p1"))

\* SpecCycle: the worker of SpecTrain beside a request thread that also sends
\* POST /runs/{id}/start.
CycleApiNext(q) ==
    \/ RunnerApiNext(q)
    \/ \E r \in GpuRunIds : StartRead(q, r)
    \/ StartCommit(q)

CycleNext == CycleApiNext("q1") \/ TrainNext("p1") \/ RequestHalt("p1")

SpecCycle == Init /\ [][CycleNext]_vars /\ WF_vars(TrainNext("p1"))

\* SpecDrain: the queue of SpecQueue left to the one process of agent a1,
\* whose worker keeps running and whose training calls return or raise; run
\* creation stops after MaxRuns runs.
DrainNext == QueueApiNext("q1") \/ TrainNext("p1")

SpecDrain == Init /\ [][DrainNext]_vars /\ WF_vars(TrainNext("p1"))

\* SpecBeat: the agent application of AgentAppFactory.  The worker of
\* SpecTrain, which may stay in the training call for ever, and the heartbeat
\* task, which the event loop keeps scheduling.
BeatNext(p) == HeartbeatAgent(p) \/ HeartbeatGpu(p)

BeatSpecNext ==
    \/ RunnerApiNext("q1")
    \/ TrainNext("p1")
    \/ RequestHalt("p1")
    \/ BeatNext("p1")

SpecBeat == Init /\ [][BeatSpecNext]_vars /\ WF_vars(BeatNext("p1"))

\* SpecCrash: the process p1 of agent a1 may die with a claimed run; the agent
\* is then started again as process p2.  One request thread creates runs on
\* GPU 0, cancels and finishes runs and releases the GPU.
CrashApiNext(q) ==
    \/ RunnerApiNext(q)
    \/ \E r \in GpuRunIds : FinishRead(q, r, TRUE)
    \/ FinishCommit(q)
    \/ ReleaseRead(q, "a1", 0)
    \/ ReleaseCommit(q)

Restarted(p) ==
    /\ proc["p1"].pc = "crashed"
    /\ WorkerNext(p) \/ BeatNext(p)

CrashNext ==
    \/ CrashApiNext("q1")
    \/ WorkerNext("p1")
    \/ BeatNext("p1")
    \/ Crash("p1")
    \/ Restarted("p2")

SpecCrash == Init /\ [][CrashNext]_vars

\* SpecOldAgent: the agent application of training_agent/server.py.  create_app
\* starts the worker task of RunnerAgent and nothing else.
SpecOldAgent == Init /\ [][RunnerSpecNext]_vars /\ WF_vars(RunnerNext("p1"))

\* SpecEta: the progress tracker.  The process p1 trains runs whose
\* configurations ask for 1 to MaxTotal epochs, with epochs of either duration,
\* and nobody halts or cancels.
EtaNext(p) ==
    \/ ClaimRead(p)
    \/ Wake(p)
    \/ ClaimCommit(p)
    \/ InitializeRunState(p)
    \/ \E epochs \in 1..MaxTotal : BuildTrainConfig(p, epochs)
    \/ LoopTop(p)
    \/ EpochDone(p)
    \/ \E duration \in Durations : OnTrainingProgress(p, duration)
    \/ UpdateRunEpoch(p)
    \/ LoopBottom(p)
    \/ proc[p].loop = "out" /\ ExecReturned(p)
    \/ ExecCommit(p)
    \/ FinalizeRead(p)
    \/ FinalizeCommit(p)
    \/ ClearRunState(p)

EtaApiNext(q) ==
    \/ Return(q)
    \/ NumRuns + CreatesInFlight < 1 /\ CreateRead(q, "a1", <<>>, 1)
    \/ CreateCommitRun(q)
    \/ CreateCommitJob(q)

EtaSpecNext == EtaApiNext("q1") \/ EtaNext("p1")

SpecEta == Init /\ [][EtaSpecNext]_vars

\* SpecStop: the worker of SpecTrain with one run without GPUs, halt requests
\* and the shutdown of the agent application, which sets the stop event.
StopNext == EtaApiNext("q1") \/ TrainNext("p1") \/ RequestHalt("p1") \/ Stop("p1")

SpecStop == Init /\ [][StopNext]_vars

\* SpecTwin: two agent processes started with the agent id a1 and one run
\* without GPUs.
TwinNext == EtaApiNext("q1") \/ (\E p \in Procs : TrainNext(p))

SpecTwin == Init /\ [][TwinNext]_vars

\* SpecBoard: the TensorBoard dispatcher.  Two dashboard threads that forward
\* requests and record heartbeats, the sweeper thread and the clock.  Only
\* "j" is the id of a Run.
BoardPaths == {<<"/", "j", "/">>, <<"/", "j">>, <<"/", "j", "/", "j">>, <<"/">>,
               <<"/", "j", "j", "/">>}

BoardWebNext(w) ==
    \/ \E path \in BoardPaths, qs \in Queries : WebRoute(w, <<"/", "t">>, path, qs)
    \/ WebResolve(w)
    \/ WebStartSweeper(w)
    \/ WebGetOrCreate(w)
    \/ WebServe(w)
    \/ HeartbeatRequest(w, <<"j">>)
    \/ RecordHeartbeat(w)
    \/ WebReturn(w)

BoardNext ==
    \/ \E w \in Webs : BoardWebNext(w)
    \/ SweepBegin
    \/ SweepEvict
    \/ SweepWake
    \/ Tick
    \/ MakeDir("d1")

SpecBoard == Init /\ [][BoardNext]_vars

\* SpecBoardLive: the dispatcher with a sweeper thread that keeps running and
\* a clock that keeps going.
SweeperNext == SweepBegin \/ SweepEvict \/ SweepWake

SpecBoardLive == Init /\ [][BoardNext]_vars /\ WF_vars(SweeperNext) /\ WF_vars(Tick)

\* SpecRelocate: two dashboard threads forward requests for job id j while
\* the directory of its run moves between d1 and d2; the factory may raise.
RelocateWebNext(w) ==
    \/ \E qs \in Queries : WebRoute(w, <<"/", "t">>, <<"/", "j", "/">>, qs)
    \/ WebResolve(w)
    \/ WebStartSweeper(w)
    \/ WebGetOrCreate(w)
    \/ WebBuildRaises(w)
    \/ WebServe(w)
    \/ WebReturn(w)

RelocateNext ==
    \/ \E w \in Webs : RelocateWebNext(w)
    \/ \E d \in Dirs : Relocate(<<"j">>, d)
    \/ \E d \in Dirs : MakeDir(d)

SpecRelocate == Init /\ [][RelocateNext]_vars

\* SpecRoute: one dashboard thread that is sent every path, under every mount
\* and with and without a query string.
RouteNext ==
    \/ \E mount \in Mounts, path \in Paths, qs \in Queries :
          WebRoute("w1", mount, path, qs)
    \/ WebResolve("w1")
    \/ WebStartSweeper("w1")
    \/ WebGetOrCreate("w1")
    \/ WebServe("w1")
    \/ WebReturn("w1")
    \/ MakeDir("d1")

SpecRoute == Init /\ [][RouteNext]_vars

\* ------------------------------------------------------------- properties
\* Run r, in a non-terminal state, has GPU g in its index set.
Holds(r, g) ==
    runs[r].state \in NonTerminal /\ runs[r].agent = g[1] /\ g[2] \in runs[r].gpus

\* get_next_queued_run has returned a RunContext to process p.
HasClaim(p) == proc[p].pc \notin {"idle", "sleep", "claim_commit"}

ErrorCodes == {"400", "404", "409"}

\* C1: in every reachable state each GPU (agent id, index) is in the index
\* set of at most one run whose state is queued or running.
NoDoubleAllocation ==
    \A g \in GpuRows : Cardinality({r \in RunIds : Holds(r, g)}) <= 1

\* C2: two claimers of the same agent id are never handed the same run.
ClaimSingleWinner ==
    \A p \in Procs, o \in Procs :
        (p # o /\ HasClaim(p) /\ HasClaim(o)) => proc[p].run # proc[o].run

\* C3: the run a claim selects is queued for the claiming agent and no other
\* run queued for that agent at that moment has a higher priority, or the
\* same priority and an earlier enqueued_at.
ClaimsBestFirst ==
    [][\A p \in Procs :
         (proc[p].pc = "idle" /\ proc'[p].pc = "claim_commit") =>
            LET r == proc'[p].run IN
            /\ r \in RunIds
            /\ jobs[r].exists /\ runs[r].state = "queued" /\ runs[r].agent = agentOf[p]
            /\ \A o \in RunIds \ {r} :
                 (jobs[o].exists /\ runs[o].state = "queued" /\ runs[o].agent = agentOf[p]) =>
                    \/ jobs[o].priority < jobs[r].priority
                    \/ jobs[o].priority = jobs[r].priority /\ jobs[o].enq > jobs[r].enq]_vars

\* C3 witness: jobs (5,t1), (1,t2), (5,t3) of one agent with t1 < t2 < t3; the
\* first has been claimed, the second is still queued and a claim has just
\* selected the third.
ClaimOrderReached ==
    \E p \in Procs, r1 \in RunIds, r2 \in RunIds, r3 \in RunIds :
        /\ jobs[r1].exists /\ jobs[r2].exists /\ jobs[r3].exists
        /\ runs[r1].agent = agentOf[p] /\ runs[r2].agent = agentOf[p]
        /\ runs[r3].agent = agentOf[p]
        /\ jobs[r1].priority = 5 /\ jobs[r2].priority = 1 /\ jobs[r3].priority = 5
        /\ jobs[r1].enq < jobs[r2].enq /\ jobs[r2].enq < jobs[r3].enq
        /\ jobs[r1].deq # 0
        /\ runs[r2].state = "queued" /\ jobs[r2].deq = 0
        /\ proc[p].pc = "claim_commit" /\ proc[p].run = r3

\* C4: once a run is succeeded, failed or canceled, no step changes its state
\* or its finished_at.
TerminalIsFinal ==
    [][\A r \in RunIds :
         runs[r].state \in Terminal =>
            runs'[r].state = runs[r].state /\ runs'[r].fin = runs[r].fin]_vars

\* C5: a cancel request that finds the run succeeded, failed or canceled
\* answers with that state and changes no run, job or GPU row.
CancelOnTerminalIsNoop ==
    [][\A q \in Reqs, r \in RunIds :
         (api[q].pc = "idle" /\ api'[q].op = "cancel" /\ api'[q].run = r
            /\ runs[r].state \in Terminal) =>
            /\ api'[q].pc = "done"
            /\ api'[q].result = runs[r].state
            /\ runs' = runs /\ jobs' = jobs /\ alloc' = alloc]_vars

\* C5 witness: cancel has answered "succeeded" for a run that is succeeded.
CancelOnSucceededReached ==
    \E q \in Reqs :
        /\ api[q].pc = "done" /\ api[q].op = "cancel" /\ api[q].result = "succeeded"
        /\ runs[api[q].run].state = "succeeded"

\* C6: a terminal-state write of the executor or the agent for a run that is
\* already terminal, hence released, clears none of the run's GPU flags again.
ReleasedOnce ==
    [][\A p \in Procs :
         (proc[p].pc \in {"exec_commit", "error_commit", "finalize_commit"}
            /\ proc'[p].pc # proc[p].pc
            /\ runs[proc[p].run].state \in Terminal) =>
            \A g \in GpuRows :
               (g[1] = runs[proc[p].run].agent /\ g[2] \in runs[proc[p].run].gpus) =>
                  alloc'[g] = alloc[g]]_vars

\* C7: a step that moves a run into succeeded, failed or canceled leaves every
\* GPU of the run's index set with its allocation flag false.
TerminalWriteReleases ==
    [][\A r \in RunIds :
         (runs[r].state \in NonTerminal /\ runs'[r].state \in Terminal) =>
            \A g \in GpuRows :
               (g[1] = runs[r].agent /\ g[2] \in runs[r].gpus) => ~alloc'[g]]_vars

\* C8: every GPU whose allocation flag is true is in the index set of a run
\* that is queued or running.
AllocatedIsHeld ==
    \A g \in GpuRows : alloc[g] => \E r \in RunIds : Holds(r, g)

\* C9: a reservation request (the loop of run creation, the reserve endpoint)
\* that lists an index which is allocated or is no GPU of the agent is answered
\* with an error; one that is accepted lists only free GPUs of the agent and
\* its commit sets every listed flag.
Conflict(a, listed) ==
    \E i \in listed : <<a, i>> \notin GpuRows \/ alloc[<<a, i>>]

ReserveAllOrError ==
    [][\A q \in Reqs :
         /\ (api[q].pc = "idle" /\ api'[q].op \in {"create", "reserve"}) =>
               /\ Conflict(api'[q].agent, api'[q].gpus) =>
                     (api'[q].pc = "done" /\ api'[q].result \in ErrorCodes)
               /\ api'[q].pc = "commit" => ~Conflict(api'[q].agent, api'[q].gpus)
         /\ (api[q].pc = "commit" /\ api[q].op \in {"create", "reserve"}
               /\ api'[q].pc # "commit") =>
               \A i \in api[q].gpus : alloc'[<<api[q].agent, i>>]]_vars

\* C10: a rejected run creation leaves every GPU flag, run row and job row as
\* it was.
RejectedCreateChangesNothing ==
    [][\A q \in Reqs :
         (api[q].pc = "idle" /\ api'[q].pc = "done" /\ api'[q].op = "create") =>
            runs' = runs /\ jobs' = jobs /\ alloc' = alloc]_vars

\* C10 witness: the request listing [0, 1] was rejected at index 1 after it had
\* marked the free GPU 0, which is still free.
RejectedAfterFreeIndexReached ==
    \E q \in Reqs :
        /\ api[q].pc = "done" /\ api[q].op = "create" /\ api[q].result = "400"
        /\ api[q].gpus = {0, 1}
        /\ ~alloc[<<api[q].agent, 0>>]

\* C11: a release request is never answered with an error, whether the index
\* is allocated, free or no GPU of the agent; its commit answers ok, leaves
\* the flag false and changes no other GPU row, no run and no job.
ReleaseIsIdempotent ==
    [][\A q \in Reqs :
         /\ (api[q].pc = "idle" /\ api'[q].op = "release") =>
               /\ ~(api'[q].pc = "done" /\ api'[q].result \in ErrorCodes)
               /\ runs' = runs /\ jobs' = jobs /\ alloc' = alloc
         /\ (api[q].pc = "commit" /\ api[q].op = "release" /\ api'[q].pc # "commit") =>
               /\ api'[q].result = "ok"
               /\ \A g \in GpuRows :
                    alloc'[g] = IF g[1] = api[q].agent /\ g[2] \in api[q].gpus
                                THEN FALSE ELSE alloc[g]
               /\ runs' = runs /\ jobs' = jobs]_vars

\* C12: when the training call of a claimed run has returned or raised, the
\* state the agent decides to store is canceled if the halt flag is set,
\* otherwise failed if the call raised, otherwise succeeded; the commit of
\* that decision stores this state together with a finished timestamp.
Outcome(halt, success) ==
    IF halt THEN "canceled" ELSE IF success THEN "succeeded" ELSE "failed"

FinalWrites == {"finalize_commit", "r_final_commit", "r_error_commit"}

FinalOutcome ==
    [][\A p \in Procs :
         /\ (proc[p].pc \notin FinalWrites /\ proc'[p].pc \in FinalWrites) =>
               proc'[p].newState = Outcome(proc[p].halt, proc'[p].success)
         /\ (proc[p].pc \in FinalWrites /\ proc'[p].pc = "clear") =>
               /\ runs'[proc[p].run].state = proc[p].newState
               /\ runs'[proc[p].run].fin # 0]_vars

\* C13: once the halt flag is set while a run is executing, the loop starts no
\* epoch, at most one progress callback is delivered, and the training call
\* leaves the loop and the run is finalized with state canceled.
Executing(p) == proc[p].pc = "exec"

HaltIsBounded ==
    /\ [][\A p \in Procs :
            /\ (Executing(p) /\ proc[p].loop # "epoch" /\ proc'[p].loop = "epoch") =>
                  ~proc[p].halt
            /\ proc'[p].late <= 1
            /\ (Executing(p) /\ proc[p].halt /\ proc[p].loop \in {"top", "bottom"}
                  /\ proc'[p] # proc[p]) => proc'[p].loop = "out"]_vars
    /\ \A p \in Procs :
          (Executing(p) /\ proc[p].halt) ~>
             (proc[p].pc = "clear" /\ runs[proc[p].run].state = "canceled")

\* C13 witness: the halt flag was set inside an epoch, that epoch's callback
\* was delivered, and the run has been finalized as canceled.
HaltedAfterEpochReached ==
    \E p \in Procs :
        /\ proc[p].pc = "clear" /\ proc[p].halt /\ proc[p].late = 1
        /\ runs[proc[p].run].state = "canceled"

\* C14: for as long as the agent process runs, whatever its worker is doing,
\* the agent row's last_heartbeat_at and the GPU row's last_seen_at are
\* written again and again.
HeartbeatsForever ==
    \A p \in {"p1"} :
        /\ []<><<beat'[agentOf[p]].agent # beat[agentOf[p]].agent>>_vars
        /\ []<><<beat'[agentOf[p]].gpu # beat[agentOf[p]].gpu>>_vars

Evicted(j) == {k \in 1..MaxBuilds : <<j, k>> \in evicted}

EvictedAfterSilence ==
    \A j \in JobIds :
        (heard[j] # NoPing /\ now - heard[j] > IdleTimeout + SweepInterval) =>
            apps[j] = NoApp

\* C17: no step of a thread that forwards a request, building or reusing the
\* handler included, changes a last-heartbeat timestamp; a timestamp is set
\* or moved forward only by the heartbeat endpoint, for the job id it was sent.
OnlyHeartbeatsCountAsLiveness ==
    [][/\ \A w \in Webs :
             ((web[w].op = "forward" \/ web'[w].op = "forward") /\ web'[w] # web[w]) =>
                 last_ping' = last_ping
       /\ \A j \in JobIds :
             (last_ping'[j] # NoPing /\ (last_ping[j] = NoPing \/ last_ping'[j] > last_ping[j])) =>
                 \E w \in Webs : /\ web[w].op = "heartbeat" /\ web[w].pc = "ping"
                                 /\ web[w].job = j /\ web'[w].pc = "done"]_vars

\* C17 witness: a forwarded request was served from a handler built for a job
\* id that has no last-heartbeat timestamp.
ServedWithoutHeartbeatReached ==
    \E w \in Webs :
        /\ web[w].op = "forward" /\ web[w].pc = "done" /\ web[w].status = 200
        /\ apps[web[w].job] = web[w].served
        /\ last_ping[web[w].job] = NoPing

\* C18: a forwarded request whose job id is not the id of a Run, or whose
\* resolved directory is not on disk, is answered 404 by the step that
\* resolves it; the factory is not called, the sweeper is not started and the
\* handler cache, the directory map and the heartbeat table stay as they were.
Unresolvable(j) == logdirOf[j] = NoDir \/ logdirOf[j] \notin onDisk

RedirectKeepsQuery ==
    [][\A w \in Webs, mount \in Mounts, job \in JobIds, qs \in Queries :
          (<<"/">> \o job \in Paths /\ WebRoute(w, mount, <<"/">> \o job, qs)) =>
              /\ web'[w].pc = "done" /\ web'[w].status = 308
              /\ web'[w].loc = mount \o <<"/">> \o job \o <<"/">>
                                 \o (IF qs = <<>> THEN <<>> ELSE <<"?">> \o qs)
              /\ web'[w].dir = NoDir /\ web'[w].served = NoApp
              /\ UNCHANGED <<apps, app_logdirs, app_ingesters, last_ping, builds, sweeper>>]_vars

\* C19 witness: the request /t/jj?x was redirected to /t/jj/?x.
RedirectWithQueryReached ==
    \E w \in Webs :
        /\ web[w].op = "redirect" /\ web[w].pc = "done" /\ web[w].status = 308
        /\ web[w].job = <<"j", "j">>
        /\ web[w].loc = <<"/", "t", "/", "j", "j", "/", "?", "x">>

\* C20: when the training call of process p raised, the run it had claimed is
\* stored failed with a finished timestamp once the process has finalized it,
\* its job carries the error and the retry count it was enqueued with, its
\* GPUs are allocated to no one but another run; a failed run is never queued
\* or running again; the process comes back to polling.
RaisedRunEndsFailed ==
    /\ [](\A p \in Procs :
             (proc[p].pc = "clear" /\ ~proc[p].success) =>
                 LET r == proc[p].run IN
                 /\ runs[r].state = "failed" /\ runs[r].fin # 0
                 /\ jobs[r].err /\ jobs[r].retries = 0
                 /\ \A g \in GpuRows :
                       (g[1] = runs[r].agent /\ g[2] \in runs[r].gpus /\ alloc[g]) =>
                           \E o \in RunIds \ {r} : Holds(o, g))
    /\ [][\A r \in RunIds :
             /\ jobs[r].exists => jobs'[r].retries = jobs[r].retries
             /\ runs[r].state = "failed" => runs'[r].state \notin NonTerminal]_vars
    /\ \A p \in Procs : (proc[p].pc = "error_commit") ~> (proc[p].pc = "idle")

\* C21: while a run is executing, the tracked average is the duration of the
\* first callback and 0.7 * avg + 0.3 * duration after each later one; the
\* ETA of the status is absent before the first callback and after every
\* callback equals max(0, total_epochs - (epoch + 1)) * avg, both in
\* AgentManager and in RunnerAgent; durations [10, 20] with 5 epochs and epoch
\* index 1 give the average 13 and the ETA 39.
RECURSIVE Ema(_)
Ema(ds) ==
    IF Len(ds) = 1 THEN ds[1] * Scale
    ELSE (7 * Ema(SubSeq(ds, 1, Len(ds) - 1)) + 3 * ds[Len(ds)] * Scale) \div 10

Remaining(p) ==
    IF proc[p].cfg_epochs - Len(proc[p].durations) > 0
    THEN proc[p].cfg_epochs - Len(proc[p].durations) ELSE 0

EtaFollowsMovingAverage ==
    \A p \in Procs :
        LET t == proc[p]
            eta == CalculateEta(t.avg_epoch_time, t.current_epoch, t.total_epochs)
        IN /\ StatusEta(t.avg_epoch_time, t.current_epoch, t.total_epochs) = eta
           /\ t.durations = <<>> => t.avg_epoch_time = NoAvg /\ eta = NoEta
           /\ t.durations # <<>> =>
                 /\ t.avg_epoch_time = Ema(t.durations)
                 /\ t.current_epoch = Len(t.durations) - 1
                 /\ eta # NoEta /\ eta = Remaining(p) * Ema(t.durations)
           /\ (t.durations = <<10, 20>> /\ t.cfg_epochs = 5) =>
                 t.avg_epoch_time = 13 * Scale /\ eta = 39 * Scale

\* C21 witness: the second callback of a run of 5 epochs, after epochs of 10
\* and 20, has left the average 13 and the ETA 39.
EtaExampleReached ==
    \E p \in Procs :
        /\ proc[p].pc = "exec" /\ proc[p].loop = "persist"
        /\ proc[p].durations = <<10, 20>> /\ proc[p].total_epochs = 5
        /\ proc[p].current_epoch = 1
        /\ CalculateEta(proc[p].avg_epoch_time, proc[p].current_epoch,
                        proc[p].total_epochs) = 39 * Scale

\* C22: the progress callback for the 0-based epoch e leaves e + 1 in the
\* stored epoch of the run being executed before it returns, and the stored
\* epoch of a running run never decreases.
EpochStoredAndMonotone ==
    [][/\ \A p \in Procs :
             (Executing(p) /\ proc[p].loop = "persist" /\ proc'[p].loop = "bottom") =>
                 runs'[proc[p].run].epoch = proc[p].epoch + 1
       /\ \A r \in RunIds :
             runs[r].state = "running" => runs'[r].epoch >= runs[r].epoch]_vars

\* C23: a job's dequeued_at is written only once, from NULL, in the step that
\* moves its run from queued to running, and every run that is running has a
\* job whose dequeued_at is set.
DequeuedExactlyOnce ==
    /\ [][\A r \in RunIds :
             jobs'[r].deq # jobs[r].deq =>
                 /\ jobs[r].deq = 0
                 /\ runs[r].state = "queued" /\ runs'[r].state = "running"]_vars
    /\ [](\A r \in RunIds :
             runs[r].state = "running" => jobs[r].exists /\ jobs[r].deq # 0)

\* C24: the commit of a claim changes a run that is queued and assigned to the
\* claiming agent, and no other run; a claim that finds no such run changes
\* no run, job or GPU row and the process sleeps a poll interval before it
\* polls again.
ClaimsOnlyQueuedOwnRuns ==
    [][\A p \in Procs :
          /\ (proc[p].pc = "claim_commit" /\ proc'[p].pc # "claim_commit") =>
                /\ runs[proc[p].run].state = "queued"
                /\ runs[proc[p].run].agent = agentOf[p]
                /\ \A r \in RunIds \ {proc[p].run} : runs'[r] = runs[r] /\ jobs'[r] = jobs[r]
          /\ (proc[p].pc = "idle" /\ proc'[p].pc = "sleep") =>
                /\ QueuedFor(agentOf[p]) = {}
                /\ UNCHANGED <<runs, jobs, alloc>>
          /\ (proc[p].pc = "sleep" /\ proc'[p].pc # "sleep") => proc'[p].pc = "idle"]_vars

\* C25: recording a heartbeat for a job id stores the current time as its
\* last heartbeat and answers with the configured idle timeout, whether or
\* not a handler is cached for the job id, and changes no handler, directory
\* or ingester entry and calls no factory.
HeartbeatOnlyStampsTime ==
    [][\A w \in Webs :
          (web[w].pc = "ping" /\ web'[w].pc # "ping") =>
              /\ last_ping'[web[w].job] = now
              /\ \A j \in JobIds \ {web[w].job} : last_ping'[j] = last_ping[j]
              /\ web'[w].status = 200 /\ web'[w].idle_timeout = IdleTimeout
              /\ UNCHANGED <<apps, app_logdirs, app_ingesters, builds>>]_vars

\* C25 witness: a heartbeat was answered for a job id for which no handler
\* was ever built, at a time after the start.
HeartbeatWithoutHandlerReached ==
    \E w \in Webs :
        /\ web[w].op = "heartbeat" /\ web[w].pc = "done" /\ web[w].status = 200
        /\ web[w].idle_timeout = IdleTimeout
        /\ builds[web[w].job] = 0 /\ apps[web[w].job] = NoApp
        /\ now > 0 /\ last_ping[web[w].job] = now

\* C26: every change of the stored state of an existing run is queued to
\* running, made by the commit of a claim, or running to a terminal state,
\* made by a write of the process that claimed the run.
AgentWrites == {"exec_commit", "error_commit", "finalize_commit", "r_final_commit",
                "r_error_commit"}

OnlyClaimAndAgentChangeState ==
    [][\A r \in RunIds :
          (runs[r].state # "absent" /\ runs'[r].state # runs[r].state) =>
              \/ /\ runs[r].state = "queued" /\ runs'[r].state = "running"
                 /\ \E p \in Procs : /\ proc[p].pc = "claim_commit" /\ proc[p].run = r
                                     /\ proc'[p].pc # "claim_commit"
              \/ /\ runs[r].state = "running" /\ runs'[r].state \in Terminal
                 /\ \E p \in Procs : /\ proc[p].pc \in AgentWrites /\ proc[p].run = r
                                     /\ proc'[p].pc # proc[p].pc]_vars

\* C27: if from some point on no heartbeat is recorded for a job id, then from
\* any time on the cache comes to hold no handler for it, the handler built
\* by a forwarded request for a job id that was never sent a heartbeat
\* included.
HeartbeatRecorded(j) ==
    \E w \in Webs : web[w].pc = "ping" /\ web[w].job = j /\ web'[w].pc = "done"

SilentJobsAreEvicted ==
    \A j \in {<<"j">>} :
        (<>[][~HeartbeatRecorded(j)]_vars) => []<>(apps[j] = NoApp)

\* C28 as stated: the critical section of a sweep leaves the handler of a job
\* id whose last heartbeat is at most idle_timeout old alone; when it ends, no
\* job id whose last heartbeat was older than idle_timeout when the sweep
\* began (when it read the clock) has a handler or a heartbeat entry; the
\* ingester of every handler it drops has been told to stop.
Fresh(j) == last_ping[j] # NoPing /\ sweeper.now - last_ping[j] <= IdleTimeout

SweepStep == sweeper.pc = "evict" /\ sweeper'.pc = "sleep"

SweepEvictsStaleAtStart ==
    [][SweepStep =>
          \A j \in JobIds :
             /\ Fresh(j) => apps'[j] = apps[j] /\ last_ping'[j] = last_ping[j]
             /\ j \in sweeper.stale => apps'[j] = NoApp /\ last_ping'[j] = NoPing
             /\ (apps[j] # NoApp /\ apps'[j] = NoApp) => <<j, apps[j]>> \in stopped']_vars

\* C28 amended: stale is judged when the sweep takes the cache mutex, so a
\* heartbeat renewed after the sweep read the clock keeps its job id; the
\* ingester is told to stop when the handler carries one.
SweepEvictsStaleUnderMutex ==
    [][SweepStep =>
          \A j \in JobIds :
             /\ Fresh(j) => apps'[j] = apps[j] /\ last_ping'[j] = last_ping[j]
             /\ (last_ping[j] # NoPing /\ ~Fresh(j)) =>
                    apps'[j] = NoApp /\ last_ping'[j] = NoPing
             /\ (apps[j] # NoApp /\ apps'[j] = NoApp /\ app_ingesters[j] # NoApp) =>
                    <<j, app_ingesters[j]>> \in stopped' /\ app_ingesters'[j] = NoApp]_vars

\* C28 witness: sweeps have dropped a handler with an ingester, which was told
\* to stop, and a handler without one, and the heartbeat entry is gone.
SweptBothKindsReached ==
    \E j \in JobIds, k \in 1..MaxBuilds, i \in 1..MaxBuilds :
        /\ k # i
        /\ <<j, k>> \in evicted /\ <<j, k>> \in stopped
        /\ <<j, i>> \in evicted /\ <<j, i>> \notin stopped
        /\ apps[j] = NoApp /\ last_ping[j] = NoPing /\ sweeper.pc = "sleep"

\* C29: outside the cache mutex a job id has a cached handler exactly when it
\* has a cached directory, and an ingester only with a handler; the step of a
\* sweep that drops a handler drops its directory, its ingester and its
\* heartbeat record in that same step.
FullyCached(j) == apps[j] # NoApp /\ app_logdirs[j] # NoDir

FullyAbsent(j) == apps[j] = NoApp /\ app_logdirs[j] = NoDir /\ app_ingesters[j] = NoApp

EvictionIsAtomic ==
    /\ [](\A j \in JobIds : FullyCached(j) \/ FullyAbsent(j))
    /\ [][\A j \in JobIds :
             (apps[j] # NoApp /\ apps'[j] = NoApp) =>
                 /\ app_logdirs'[j] = NoDir /\ app_ingesters'[j] = NoApp
                 /\ last_ping'[j] = NoPing
                 /\ SweepStep]_vars

\* C29 witness: a job id that was fully cached, with an ingester and a
\* heartbeat, has been evicted and is fully absent while a request for it is
\* about to look into the cache.
EvictedWholeReached ==
    \E j \in JobIds, w \in Webs :
        /\ \E k \in 1..MaxBuilds : <<j, k>> \in evicted /\ <<j, k>> \in stopped
        /\ FullyAbsent(j) /\ last_ping[j] = NoPing
        /\ web[w].job = j /\ web[w].pc = "cache"

\* C30: a request that reaches the cache with a resolved directory other than
\* the one the cached handler of its job id was built for invokes the factory
\* for its directory, and the handler the factory returns replaces the entry:
\* the request is served by it and the cached directory is the resolved one;
\* a request whose directory matches is served by the cached handler and the
\* factory is not invoked.
InCache(w) == web[w].pc = "cache" /\ web'[w].pc # "cache"

RebuiltWhenDirectoryMoved ==
    [][\A w \in Webs : InCache(w) =>
          LET j == web[w].job
              d == web[w].dir
          IN /\ (apps[j] # NoApp /\ app_logdirs[j] # d) =>
                    /\ builds'[j] = builds[j] + 1
                    /\ web'[w].pc = "serve" =>
                          /\ apps'[j] = builds'[j] /\ apps'[j] # apps[j]
                          /\ web'[w].served = apps'[j]
                          /\ app_logdirs'[j] = d
             /\ (apps[j] # NoApp /\ app_logdirs[j] = d) =>
                    /\ builds'[j] = builds[j]
                    /\ web'[w].pc = "serve" /\ web'[w].served = apps[j]
                    /\ apps'[j] = apps[j] /\ app_logdirs'[j] = d]_vars

\* C30 witness: the handler built first, for d1, has been replaced by one built
\* for d2 after the directory moved, and a request is served by the new one.
ReplacedHandlerReached ==
    \E w \in Webs :
        /\ web[w].pc = "serve" /\ web[w].dir = "d2" /\ ~web[w].first
        /\ web[w].served = 2 /\ apps[web[w].job] = 2
        /\ app_logdirs[web[w].job] = "d2" /\ logdirOf[web[w].job] = "d2"

\* C31: a request whose build fails ends with status 500 and leaves the
\* handler, directory and ingester tables as they were; the request is out of
\* the critical section, so a request waiting at the cache can go on; and a
\* request that finds no handler for its directory invokes the factory.
FailedBuildStoresNothing ==
    /\ [][\A w \in Webs :
             /\ (InCache(w) /\ web'[w].pc = "done") =>
                   /\ web'[w].status = 500 /\ web'[w].served = NoApp
                   /\ apps' = apps /\ app_logdirs' = app_logdirs
                   /\ app_ingesters' = app_ingesters
                   /\ builds'[web[w].job] = builds[web[w].job] + 1
             /\ (InCache(w) /\ ~Cached(web[w].job, web[w].dir)) =>
                   builds'[web[w].job] = builds[web[w].job] + 1]_vars
    /\ [](\A w \in Webs :
             (web[w].pc = "cache" /\ (Cached(web[w].job, web[w].dir)
                                        \/ builds[web[w].job] < MaxBuilds)) =>
                 ENABLED (WebGetOrCreate(w) \/ WebBuildRaises(w)))

\* C31 witness: the first build for the job id raised and that request ended
\* with status 500; the next request invoked the factory again and is served
\* by the handler it returned.
RetriedAfterFailureReached ==
    \E w \in Webs, v \in Webs :
        /\ web[w].pc = "done" /\ web[w].status = 500
        /\ web[v].pc = "serve" /\ web[v].job = web[w].job
        /\ builds[web[v].job] = 2 /\ web[v].served = 2 /\ apps[web[v].job] = 2

\* C32: a process that has claimed a run always comes back to polling; when it
\* does, a terminal state is stored for that run and the run snapshot of the
\* process is empty, whether the training call returned, raised or was halted.
SnapshotCleared(p) ==
    /\ proc[p].run = NoRun /\ proc[p].current_epoch = NoEpoch
    /\ proc[p].total_epochs = NoTotal /\ proc[p].avg_epoch_time = NoAvg

StuckUnlessCancelOrFinish ==
    [][\A p \in Procs :
          (/\ proc[p].pc = "crashed" /\ runs[proc[p].run].state = "running"
           /\ ~\E q \in Reqs : /\ api[q].pc = "commit" /\ api[q].op \in {"cancel", "finish"}
                               /\ api'[q].pc = "done") =>
              LET r == proc[p].run IN
              /\ runs'[r].state = "running"
              /\ \A g \in GpuRows :
                    (g[1] = runs[r].agent /\ g[2] \in runs[r].gpus /\ alloc[g]) => alloc'[g]]_vars

\* C34: a run for which a halt was requested after its claim was stored and
\* before its training call returned is stored canceled when the process has
\* finalized it, the halt made between the claim and _initialize_run_state
\* included.
HaltIsNeverLost ==
    \A p \in Procs :
        (proc[p].pc = "clear" /\ proc[p].asked) => runs[proc[p].run].state = "canceled"

\* C35: in every reachable state every GPU index in the index set of a queued
\* or running run is a GPU of the run's agent whose allocation flag is true.
ReservedStaysAllocated ==
    \A r \in RunIds :
        runs[r].state \in NonTerminal =>
            \A i \in runs[r].gpus :
                <<runs[r].agent, i>> \in GpuRows /\ alloc[<<runs[r].agent, i>>]

\* C36: at any time at most one run of each agent is stored as running, and a
\* process that starts the training call of a run holds no other run.
OneRunningPerAgent ==
    LET RunningOf(a) == {r \in RunIds : runs[r].state = "running" /\ runs[r].agent = a}
    IN /\ \A a \in Agents : Cardinality(RunningOf(a)) <= 1
       /\ \A p \in Procs :
             proc[p].pc \in {"exec", "r_exec"} => RunningOf(agentOf[p]) \subseteq {proc[p].run}

\* C37: a run that a cancel request stored as canceled while it was queued (it
\* is canceled and its job was never dequeued) is never selected by a claim,
\* and no claim commits on it: it is never running afterwards.
CanceledQueuedNeverClaimed ==
    [][\A r \in RunIds :
          (runs[r].state = "canceled" /\ jobs[r].exists /\ jobs[r].deq = 0) =>
              /\ runs'[r].state = "canceled" /\ jobs'[r].deq = 0
              /\ \A p \in Procs : proc[p].run # r => proc'[p].run # r]_vars

\* C38: a run whose training loop was left on the stop event before all its
\* epochs had run, without a halt request, is not stored as succeeded when the
\* process has finalized it.
InterruptedNotSucceeded ==
    \A p \in Procs :
        (/\ proc[p].pc = "clear"
         /\ proc[p].stop /\ ~proc[p].halt /\ ~proc[p].asked
         /\ proc[p].success /\ Len(proc[p].durations) < proc[p].cfg_epochs) =>
            runs[proc[p].run].state # "succeeded"

\* C39: once run creation has stopped, every run that is queued for the agent
\* of a process that keeps running, has a job and is left to the agent is
\* eventually dequeued by a claim and stored in a terminal state, whatever the
\* priorities of the runs created before and after it.
QueuedRunsAreServed ==
    \A r \in RunIds :
        (runs[r].state = "queued" /\ runs[r].agent = agentOf["p1"] /\ jobs[r].exists) ~>
            (runs[r].state \in Terminal /\ jobs[r].deq # 0)

\* C39 witness: a run enqueued first with the low priority and a run enqueued
\* later with the high priority, both of the agent, have both been trained.
OvertakenRunServedReached ==
    \E r \in RunIds, o \in RunIds :
        /\ runs[r].agent = "a1" /\ runs[o].agent = "a1"
        /\ jobs[r].priority < jobs[o].priority /\ jobs[r].enq < jobs[o].enq
        /\ runs[r].state = "succeeded" /\ runs[o].state = "succeeded"
        /\ jobs[r].deq # 0 /\ jobs[o].deq # 0

====
